---- MODULE Spec2Model ----
(***************************************************************************)
(* python-json-rbac: the key-rotation manager (key_manager.py) and the     *)
(* token codec (core.py), modelled as a state machine.                     *)
(*                                                                         *)
(* Time is an integer clock `now`; one unit stands for one day in the      *)
(* manager's cutoff arithmetic and for one second in the codec's exp/nbf   *)
(* arithmetic.  None is modelled by NoKey / NoTime.                        *)
(***************************************************************************)
EXTENDS Integers, Sequences, FiniteSets, TLC

\* ------------------------------------------------------------------ bounds
MaxKeys == 2       \* secrets the manager may generate in one behaviour
MaxTime == 1       \* last value of the clock
MaxIoFailures == 1
MaxCallers == 2 \* failed file operations in one behaviour

\* -------------------------------------------------------- program constants
MIN_SECRET_LENGTH == 32

NoKey == 0         \* Optional[str] None for a key id
NoSecret == 0      \* the empty string of an unset secret
NoTime == 0 - 1    \* Optional[datetime] None

VARIABLES
    keys,          \* SecureKeyManager._keys: insertion-ordered dict, as a sequence of KeyMetadata
    disk,          \* the store document at storage_path
    hasPath,       \* SecureKeyManager.storage_path is not None
    now,           \* datetime.now(timezone.utc)
    nextSecret,    \* number of secrets drawn from the random source so far
    ioFailures,    \* number of file operations that have failed so far
    last,          \* the last completed call: its name, arguments and outcome
    cfg,           \* the module constants of config.py, read once at import
    issued,        \* the token create_token returned last, with its arguments
    threads,       \* per thread: its position inside activate_key and its locals
    observed,      \* what the last read of the store by a thread returned
    once,          \* get_key_manager: the lock, the global instance and its callers
    probe          \* the last call of a function that has no state of its own

vars == <<keys, disk, hasPath, now, nextSecret, ioFailures, last, cfg, issued, threads,
          observed, once, probe>>

\* the state outside activate_key, statement by statement
aside == <<once, probe>>

\* the state outside the key manager's calls and the codec
conc == <<threads, observed, once, probe>>

\* ------------------------------------------------------------------ helpers
Range(s) == {s[i] : i \in 1..Len(s)}

Ids(ks) == {ks[i].key_id : i \in 1..Len(ks)}

ActiveIds(ks) == {ks[i].key_id : i \in {j \in 1..Len(ks) : ks[j].is_active}}

Meta(ks, id) == ks[CHOOSE i \in 1..Len(ks) : ks[i].key_id = id]

PutAlone(ks, m) == <<m>>

\* self._keys[key_id] = metadata : replace in place, or append at the end
Put(ks, m) ==
    IF m.key_id \in Ids(ks)
    THEN [i \in 1..Len(ks) |-> IF ks[i].key_id = m.key_id THEN m ELSE ks[i]]
    ELSE Append(ks, m)

\* hashlib.sha256(secret.encode()).hexdigest()[:16], collision-free on the
\* secrets of the model
KeyIdOf(secret) == 2 * secret + 1

\* len(secrets.token_urlsafe(n)): n random bytes, base64 without padding
TokenUrlsafeLen(n) == (4 * n + 2) \div 3

\* _validate_secret_strength on a random URL-safe secret of the given length:
\* the length rule decides
ValidateSecretStrength(secretLen) == secretLen >= MIN_SECRET_LENGTH

\* ---------------------------------------- config.py: _validate_secret_strength
\* A secret is a sequence of character codes.
\* the character class of ALLOWED_SECRET_CHARS: [A-Za-z0-9+/=\-_]
AllowedChar(c) ==
    c \in (65..90) \cup (97..122) \cup (48..57) \cup {43, 47, 61, 45, 95}

AllAllowed(secret) == \A i \in 1..Len(secret) : AllowedChar(secret[i])

\* ALLOWED_SECRET_CHARS.match(secret) for '^[...]+$': $ matches at the end of
\* the string and also just before a newline that ends the string
MatchesAllowedChars(secret) ==
    \/ secret # <<>> /\ AllAllowed(secret)
    \/ /\ Len(secret) >= 2
       /\ secret[Len(secret)] = 10      \* '\n'
       /\ AllAllowed(SubSeq(secret, 1, Len(secret) - 1))

\* str.lower() on ASCII
Lower(secret) ==
    [i \in 1..Len(secret) |->
        IF secret[i] \in 65..90 THEN secret[i] + 32 ELSE secret[i]]

\* {'test', 'secret', 'password', 'key', 'token'}
WeakValues ==
    {<<116, 101, 115, 116>>, <<115, 101, 99, 114, 101, 116>>,
     <<112, 97, 115, 115, 119, 111, 114, 100>>, <<107, 101, 121>>,
     <<116, 111, 107, 101, 110>>}

\* round(10^6 * log2(n)) for n = 1..90
Log2Micro ==
    <<
      0, 1000000, 1584963, 2000000, 2321928, 2584963,
      2807355, 3000000, 3169925, 3321928, 3459432, 3584963,
      3700440, 3807355, 3906891, 4000000, 4087463, 4169925,
      4247928, 4321928, 4392317, 4459432, 4523562, 4584963,
      4643856, 4700440, 4754888, 4807355, 4857981, 4906891,
      4954196, 5000000, 5044394, 5087463, 5129283, 5169925,
      5209453, 5247928, 5285402, 5321928, 5357552, 5392317,
      5426265, 5459432, 5491853, 5523562, 5554589, 5584963,
      5614710, 5643856, 5672425, 5700440, 5727920, 5754888,
      5781360, 5807355, 5832890, 5857981, 5882643, 5906891,
      5930737, 5954196, 5977280, 6000000, 6022368, 6044394,
      6066089, 6087463, 6108524, 6129283, 6149747, 6169925,
      6189825, 6209453, 6228819, 6247928, 6266787, 6285402,
      6303781, 6321928, 6339850, 6357552, 6375039, 6392317,
      6409391, 6426265, 6442943, 6459432, 6475733, 6491853
    >>

\* char_counts[char]
CharCount(secret, c) == Cardinality({i \in 1..Len(secret) : secret[i] = c})

RECURSIVE SumCountLogs(_, _)
SumCountLogs(secret, chars) ==
    IF chars = {} THEN 0
    ELSE LET c == CHOOSE x \in chars : TRUE
             n == CharCount(secret, c)
         IN n * Log2Micro[n] + SumCountLogs(secret, chars \ {c})

\* len(secret) * _calculate_entropy(secret) in millionths of a bit:
\* -sum(p * log2(p)) with p = count / length is log2(length) - sum(count *
\* log2(count)) / length
EntropyTimesLength(secret) ==
    IF secret = <<>> THEN 0
    ELSE Len(secret) * Log2Micro[Len(secret)] - SumCountLogs(secret, Range(secret))

MIN_SECRET_ENTROPY_MICRO == 3500000

\* _validate_secret_strength(secret, min_length): the rule whose ValueError
\* is raised, "none" when the function returns
Validate(secret, min_length) ==
    IF secret = <<>> THEN "empty"
    ELSE IF Len(secret) < min_length THEN "too_short"
    ELSE IF ~MatchesAllowedChars(secret) THEN "invalid_characters"
    ELSE IF EntropyTimesLength(secret) < MIN_SECRET_ENTROPY_MICRO * Len(secret)
    THEN "insufficient_entropy"
    ELSE IF Lower(secret) \in WeakValues THEN "common_weak_value"
    ELSE IF 2 * Cardinality(Range(secret)) < Len(secret) THEN "repeated_characters"
    ELSE "none"

\* the rules that the message of the raised ValueError names
RulesNamed(raised) == IF raised = "none" THEN {} ELSE {raised}

\* the alphabet of secrets.token_urlsafe, in base64 order
UrlSafeChar(i) ==
    IF i < 26 THEN 65 + i
    ELSE IF i < 52 THEN 97 + (i - 26)
    ELSE IF i < 62 THEN 48 + (i - 52)
    ELSE IF i = 62 THEN 45 ELSE 95

\* _generate_secure_secret(length): secrets.token_urlsafe(length), with the
\* random characters of the model drawn in turn from the alphabet
GenerateSecureSecret(length) ==
    [i \in 1..TokenUrlsafeLen(length) |-> UrlSafeChar((i - 1) % 64)]

\* ------------------------------------------------------------- persistence
IsoFormat(t) == <<t>>
FromIsoFormat(s) == s[1]
JsonNull == <<>>

SerializeWithoutLastUsed(ks) ==
    [i \in 1..Len(ks) |->
        [ks[i] EXCEPT !.created_at = IsoFormat(ks[i].created_at),
                      !.last_used = JsonNull]]

Serialize(ks) ==
    [i \in 1..Len(ks) |->
        [ks[i] EXCEPT !.created_at = IsoFormat(ks[i].created_at),
                      !.last_used = IF ks[i].last_used # NoTime
                                    THEN IsoFormat(ks[i].last_used) ELSE JsonNull]]

IoOutcomes == {"ok", "write_fail", "write_trunc", "mkdir_fail"}

Failed(io) == IF io = "ok" THEN 0 ELSE 1

\* the file system can fail only where there is a file, and at most
\* MaxIoFailures times in one behaviour
IoAllowed(failures) ==
    IF hasPath THEN ioFailures + failures <= MaxIoFailures ELSE failures = 0

\* _save_metadata raises only what escapes its try block (lines 113-117):
\* a failing mkdir (line 100)
SaveRaises(io) == io = "mkdir_fail"

\* the document after _save_metadata(ks) when the document was doc: a failed
\* write leaves the old document (open refused) or a truncated one
SaveDisk(doc, ks, io) ==
    IF ~hasPath \/ io = "mkdir_fail" \/ io = "write_fail" THEN doc
    ELSE IF io = "ok" THEN [state |-> "ok", keys |-> Serialize(ks)]
    ELSE [state |-> "corrupt", keys |-> <<>>]

\* ------------------------------------------------------- claims and tokens
\* a JSON value of a claims mapping: a string, a number, or a key id string
Str(s) == [t |-> "str", s |-> s, n |-> 0]
Num(n) == [t |-> "num", s |-> "", n |-> n]
Kid(id) == [t |-> "kid", s |-> "", n |-> id]

NoClaims == [k \in {} |-> Str("")]

\* a token string: its wire format, the header's alg, the key that signed it,
\* the key that encrypted it (NoSecret when not encrypted) and its payload
Token(fmt, alg, signer, enc, claims) ==
    [fmt |-> fmt, alg |-> alg, signer |-> signer, enc |-> enc, claims |-> claims]

NoToken == Token("none", "none", NoSecret, NoSecret, NoClaims)

\* a completed manager call
Call(op, arg, err, io, ret, list) ==
    [op |-> op, arg |-> arg, at |-> now, err |-> err, io |-> io, ret |-> ret,
     list |-> list, tok |-> NoToken, out |-> NoClaims, decrypts |-> <<>>,
     tried |-> <<>>, exposed |-> <<>>, payload |-> NoClaims]

\* ------------------------------------------------------------- generate_key
NewMetadataActive(key_id, algorithm, key_length) ==
    [key_id |-> key_id, created_at |-> now, algorithm |-> algorithm,
     key_length |-> key_length, is_active |-> TRUE, rotation_count |-> 0,
     last_used |-> NoTime]

NewMetadata(key_id, algorithm, key_length) ==
    [key_id |-> key_id, created_at |-> now, algorithm |-> algorithm,
     key_length |-> key_length, is_active |-> FALSE, rotation_count |-> 0,
     last_used |-> NoTime]

InsertUnvalidated(ks, m, strong) == Put(ks, m)

\* lines 130-144: _validate_secret_strength raises before the metadata is
\* built and stored, so a secret that fails it leaves self._keys as it was
InsertValidated(ks, m, strong) == IF strong THEN Put(ks, m) ELSE ks

GenerateKey(algorithm, length, io) ==
    /\ nextSecret < MaxKeys
    /\ LET secret == nextSecret + 1
           key_id == KeyIdOf(secret)
           klen == TokenUrlsafeLen(length)
       IN IF ~ValidateSecretStrength(klen)
          THEN /\ io = "ok"
               /\ keys' = InsertValidated(keys, NewMetadata(key_id, algorithm, klen), FALSE)
               /\ last' = Call("generate", NoKey, "WeakSecret", "none", 0, <<>>)
               /\ UNCHANGED <<disk, nextSecret, ioFailures>>
          ELSE /\ IoAllowed(Failed(io))
               /\ keys' = Put(keys, NewMetadata(key_id, algorithm, klen))
               /\ disk' = SaveDisk(disk, keys', io)
               /\ nextSecret' = secret
               /\ ioFailures' = ioFailures + Failed(io)
               /\ last' = Call("generate", key_id,
                               IF SaveRaises(io) THEN "OSError" ELSE "none",
                               io, 0, <<>>)
    /\ UNCHANGED <<hasPath, now, cfg, issued, conc>>

\* ------------------------------------------------------------- activate_key
DeactivateNone(ks) == ks

\* lines 159-160: every key deactivated
DeactivateAll(ks) == [i \in 1..Len(ks) |-> [ks[i] EXCEPT !.is_active = FALSE]]

ActivateOneNoStamp(ks, key_id, t) ==
    [i \in 1..Len(ks) |->
        IF ks[i].key_id = key_id THEN [ks[i] EXCEPT !.is_active = TRUE] ELSE ks[i]]

\* lines 162-163: the target activated and stamped
ActivateOne(ks, key_id, t) ==
    [i \in 1..Len(ks) |->
        IF ks[i].key_id = key_id
        THEN [ks[i] EXCEPT !.is_active = TRUE, !.last_used = t]
        ELSE ks[i]]

\* lines 166-167: the finally clause's fallback
EnsureOneActive(ks, key_id) ==
    IF ActiveIds(ks) = {}
    THEN [i \in 1..Len(ks) |->
            IF ks[i].key_id = key_id THEN [ks[i] EXCEPT !.is_active = TRUE] ELSE ks[i]]
    ELSE ks

\* the store after the body of activate_key (key_id present)
ActivateStore(ks, key_id, t) ==
    EnsureOneActive(ActivateOne(DeactivateAll(ks), key_id, t), key_id)

ActivateKeyLookupLast(key_id, io) ==
    /\ IoAllowed(Failed(io))
    /\ keys' = ActivateStore(keys, key_id, now)
    /\ disk' = SaveDisk(disk, keys', io)
    /\ ioFailures' = ioFailures + Failed(io)
    /\ last' = Call("activate", key_id,
                    IF key_id \notin Ids(keys) THEN "KeyNotFound"
                    ELSE IF SaveRaises(io) THEN "OSError" ELSE "none",
                    io, 0, <<>>)
    /\ UNCHANGED <<hasPath, now, nextSecret, cfg, issued, conc>>

\* lines 155-168; the lookup of lines 155-156 comes before any change
ActivateKey(key_id, io) ==
    /\ IF key_id \notin Ids(keys)
       THEN /\ io = "ok"
            /\ last' = Call("activate", key_id, "KeyNotFound", "none", 0, <<>>)
            /\ UNCHANGED <<keys, disk, ioFailures>>
       ELSE /\ IoAllowed(Failed(io))
            /\ keys' = ActivateStore(keys, key_id, now)
            /\ disk' = SaveDisk(disk, keys', io)
            /\ ioFailures' = ioFailures + Failed(io)
            /\ last' = Call("activate", key_id,
                            IF SaveRaises(io) THEN "OSError" ELSE "none",
                            io, 0, <<>>)
    /\ UNCHANGED <<hasPath, now, nextSecret, cfg, issued, conc>>

\* --------------------------------------------------------- get_active_key_id
GetActiveKeyId(ks) ==
    IF ActiveIds(ks) = {} THEN NoKey
    ELSE ks[CHOOSE i \in 1..Len(ks) :
                /\ ks[i].is_active
                /\ \A j \in 1..(i - 1) : ~ks[j].is_active].key_id

\* --------------------------------------------------------------- rotate_key
BumpRotationCountOfNewest(ks) ==
    [i \in 1..Len(ks) |->
        IF i = Len(ks) THEN [ks[i] EXCEPT !.rotation_count = @ + 1] ELSE ks[i]]

\* lines 228-230: rotation_count of the key that is active after generate_key
BumpRotationCount(ks) ==
    LET current_active == GetActiveKeyId(ks)
    IN [i \in 1..Len(ks) |->
           IF current_active # NoKey /\ ks[i].key_id = current_active
           THEN [ks[i] EXCEPT !.rotation_count = @ + 1]
           ELSE ks[i]]

\* what a rotate_key call met in its two saves, the raising failure first
RotateIo(io1, io2) ==
    IF io1 = "mkdir_fail" \/ io2 = "mkdir_fail" THEN "mkdir_fail"
    ELSE IF io1 # "ok" THEN io1 ELSE io2

\* io1 is the outcome of generate_key's save, io2 of activate_key's
RotateKey(algorithm, length, io1, io2) ==
    /\ nextSecret < MaxKeys
    /\ LET secret == nextSecret + 1
           new_key_id == KeyIdOf(secret)
           klen == TokenUrlsafeLen(length)
           generated == Put(keys, NewMetadata(new_key_id, algorithm, klen))
       IN IF ~ValidateSecretStrength(klen)
          THEN /\ io1 = "ok" /\ io2 = "ok"
               /\ keys' = InsertValidated(keys, NewMetadata(new_key_id, algorithm, klen),
                                          FALSE)
               /\ last' = Call("rotate", NoKey, "WeakSecret", "none", 0, <<>>)
               /\ UNCHANGED <<disk, nextSecret, ioFailures>>
          ELSE IF SaveRaises(io1)
          THEN \* generate_key's save raised: rotate_key stops after the insert
               /\ io2 = "ok"
               /\ IoAllowed(1)
               /\ keys' = generated
               /\ disk' = SaveDisk(disk, generated, io1)
               /\ nextSecret' = secret
               /\ ioFailures' = ioFailures + 1
               /\ last' = Call("rotate", new_key_id, "OSError", io1, 0, <<>>)
          ELSE /\ IoAllowed(Failed(io1) + Failed(io2))
               /\ keys' = ActivateStore(BumpRotationCount(generated), new_key_id, now)
               /\ disk' = SaveDisk(SaveDisk(disk, generated, io1), keys', io2)
               /\ nextSecret' = secret
               /\ ioFailures' = ioFailures + Failed(io1) + Failed(io2)
               /\ last' = Call("rotate", new_key_id,
                               IF SaveRaises(io2) THEN "OSError" ELSE "none",
                               RotateIo(io1, io2), 0, <<>>)
    /\ UNCHANGED <<hasPath, now, cfg, issued, conc>>

\* --------------------------------------------------------- cleanup_old_keys
KeysToRemoveActiveToo(ks, max_age_days) ==
    SelectSeq([i \in 1..Len(ks) |-> ks[i].key_id],
              LAMBDA id : Meta(ks, id).created_at < now - max_age_days)

KeysToRemoveAtCutoffToo(ks, max_age_days) ==
    SelectSeq([i \in 1..Len(ks) |-> ks[i].key_id],
              LAMBDA id : /\ ~Meta(ks, id).is_active
                          /\ Meta(ks, id).created_at <= now - max_age_days)

KeysToRemoveOfAnyAge(ks, max_age_days) ==
    SelectSeq([i \in 1..Len(ks) |-> ks[i].key_id], LAMBDA id : ~Meta(ks, id).is_active)

\* lines 248-250, in dict order
KeysToRemove(ks, max_age_days) ==
    LET cutoff_date == now - max_age_days
    IN SelectSeq([i \in 1..Len(ks) |-> ks[i].key_id],
                 LAMBDA id : /\ ~Meta(ks, id).is_active
                             /\ Meta(ks, id).created_at < cutoff_date)

RemoveEveryKey(ks, ids) == <<>>

\* lines 253-254
RemoveKeys(ks, ids) == SelectSeq(ks, LAMBDA m : m.key_id \notin Range(ids))

CleanupOldKeys(max_age_days, dry_run, io) ==
    /\ LET keys_to_remove == KeysToRemove(keys, max_age_days)
       IN IF dry_run
          THEN /\ io = "ok"
               /\ last' = Call("cleanup_dry", max_age_days, "none", "none", 0, keys_to_remove)
               /\ UNCHANGED <<keys, disk, ioFailures>>
          ELSE IF keys_to_remove = <<>>
          THEN /\ io = "ok"
               /\ last' = Call("cleanup", max_age_days, "none", "none", 0, <<>>)
               /\ UNCHANGED <<keys, disk, ioFailures>>
          ELSE /\ IoAllowed(Failed(io))
               /\ keys' = RemoveKeys(keys, keys_to_remove)
               /\ disk' = SaveDisk(disk, keys', io)
               /\ ioFailures' = ioFailures + Failed(io)
               /\ last' = Call("cleanup", max_age_days,
                               IF SaveRaises(io) THEN "OSError" ELSE "none",
                               io, Len(keys_to_remove), <<>>)
    /\ UNCHANGED <<hasPath, now, nextSecret, cfg, issued, conc>>

\* ================================================================ config.py
CurrentSecret == 101      \* the value of JWT_SECRET in the environment
PreviousSecret == 102     \* the value of JWT_SECRET_PREVIOUS when it is set
ForeignSecret == 103      \* a secret that is not configured
RsaPrivateKey == 301      \* the key in the file at JWT_PRIVATE_KEY_PATH
RsaKeyId == 0 - 2         \* the literal "rsa-key"

PublicOf(private) == private + 1

JWT_SECRET == cfg.secret
JWT_SECRET_PREVIOUS == cfg.prev
JWT_SECRET_ID == KeyIdOf(JWT_SECRET)
JWT_SECRET_PREVIOUS_ID ==
    IF JWT_SECRET_PREVIOUS # NoSecret THEN KeyIdOf(JWT_SECRET_PREVIOUS) ELSE NoKey
KEY_ROTATION_ENABLED == JWT_SECRET_PREVIOUS # NoSecret
ALGORITHM == cfg.alg
ENABLE_JWE == cfg.jwe
STRICT_MODE == cfg.strict
MAX_CLOCK_SKEW_SECONDS == cfg.skew
ACCESS_TOKEN_EXPIRE_MINUTES == cfg.ttl

\* the configurations of the model; the key files of RS256 exist and the
\* secret has the 256 bits that A256GCM needs when JWE is on
Configs ==
    [secret : {CurrentSecret}, prev : {NoSecret, PreviousSecret},
     alg : {"HS256", "RS256"}, jwe : BOOLEAN, strict : BOOLEAN,
     skew : {0, 1}, ttl : {1}]

DefaultConfig ==
    [secret |-> CurrentSecret, prev |-> NoSecret, alg |-> "HS256", jwe |-> FALSE,
     strict |-> TRUE, skew |-> 0, ttl |-> 1]

\* ================================================================== core.py
\* {**a, **b}
Merge(a, b) ==
    [k \in DOMAIN a \cup DOMAIN b |-> IF k \in DOMAIN b THEN b[k] ELSE a[k]]

\* Python truthiness of a claim value
Falsy(v) == (v.t = "str" /\ v.s = "") \/ (v.t = "num" /\ v.n = 0)

IsStr(v) == v.t \in {"str", "kid"}

\* the classes an exception is an instance of (jose.exceptions)
Mro(exc) ==
    CASE exc = "ExpiredSignatureError" ->
            {"ExpiredSignatureError", "JWTError", "JOSEError", "Exception"}
      [] exc = "JWTClaimsError" -> {"JWTClaimsError", "JWTError", "JOSEError", "Exception"}
      [] exc = "JWTError" -> {"JWTError", "JOSEError", "Exception"}
      [] exc = "JWEError" -> {"JWEError", "JOSEError", "Exception"}
      [] OTHER -> {exc, "Exception"}

GetSigningKey == IF ALGORITHM = "HS256" THEN JWT_SECRET ELSE RsaPrivateKey

GetVerifyKeysOfActiveKey ==
    IF ActiveIds(keys) # {} /\ JWT_SECRET_ID \notin ActiveIds(keys) THEN <<>>
    ELSE <<[key |-> JWT_SECRET, key_id |-> JWT_SECRET_ID]>>

GetVerifyKeysPreviousFirst ==
    IF ALGORITHM = "HS256"
    THEN (IF KEY_ROTATION_ENABLED /\ JWT_SECRET_PREVIOUS # NoSecret
          THEN <<[key |-> JWT_SECRET_PREVIOUS, key_id |-> JWT_SECRET_PREVIOUS_ID]>>
          ELSE <<>>)
         \o <<[key |-> JWT_SECRET, key_id |-> JWT_SECRET_ID]>>
    ELSE <<[key |-> PublicOf(RsaPrivateKey), key_id |-> RsaKeyId]>>

\* _get_verify_keys, lines 88-106
GetVerifyKeys ==
    IF ALGORITHM = "HS256"
    THEN <<[key |-> JWT_SECRET, key_id |-> JWT_SECRET_ID]>>
         \o (IF KEY_ROTATION_ENABLED /\ JWT_SECRET_PREVIOUS # NoSecret
             THEN <<[key |-> JWT_SECRET_PREVIOUS, key_id |-> JWT_SECRET_PREVIOUS_ID]>>
             ELSE <<>>)
    ELSE <<[key |-> PublicOf(RsaPrivateKey), key_id |-> RsaKeyId]>>

\* --------------------------------------------------------------- create_token
NoDelta == 0 - 99         \* expires_delta = None

\* expires_delta or timedelta(minutes=ACCESS_TOKEN_EXPIRE_MINUTES)
Lifetime(expires_delta) ==
    IF expires_delta = NoDelta \/ expires_delta = 0
    THEN ACCESS_TOKEN_EXPIRE_MINUTES ELSE expires_delta

\* lines 146-156
BuildClaims(payload, expires_delta, key_id) ==
    LET std == [iat |-> Num(now), nbf |-> Num(now),
                exp |-> Num(now + Lifetime(expires_delta)), jti |-> Str("nonce")]
        claims == Merge(std, payload)
    IN IF ALGORITHM = "HS256"
       THEN Merge(claims, [kid |-> Kid(IF key_id # NoKey THEN key_id ELSE JWT_SECRET_ID)])
       ELSE claims

\* the error create_token raises ("none" when it returns) and its token
CreateResult(payload, expires_delta, key_id) ==
    IF "sub" \notin DOMAIN payload \/ "role" \notin DOMAIN payload
    THEN [err |-> "ValueError", tok |-> NoToken]
    ELSE LET claims == BuildClaims(payload, expires_delta, key_id)
             jwt_token == Token("jwt", ALGORITHM, GetSigningKey, NoSecret, claims)
         IN IF ~ENABLE_JWE
            THEN [err |-> "none", tok |-> jwt_token]
            ELSE [err |-> "none", tok |-> [jwt_token EXCEPT !.fmt = "jwe", !.enc = JWT_SECRET]]

NoIssued ==
    [tok |-> NoToken, at |-> 0, payload |-> NoClaims, delta |-> NoDelta, key_id |-> NoKey]

CreateToken(payload, expires_delta, key_id) ==
    /\ LET r == CreateResult(payload, expires_delta, key_id)
       IN /\ last' = [Call("create", key_id, r.err, "none", 0, <<>>) EXCEPT
                         !.tok = r.tok, !.payload = payload]
          /\ issued' = IF r.err = "none"
                       THEN [tok |-> r.tok, at |-> now, payload |-> payload,
                             delta |-> expires_delta, key_id |-> key_id]
                       ELSE issued
    /\ UNCHANGED <<keys, disk, hasPath, now, nextSecret, ioFailures, cfg, conc>>

\* --------------------------------------------------------------- verify_token
IsEmptyString(tk) == tk.fmt = "empty"

\* line 203: not token or not token.strip() -- the empty string, or
\* whitespace only
IsBlank(tk) == tk.fmt \in {"empty", "blank"}

\* jwe.decrypt(token, key) succeeds
JweDecrypts(tk, key) == tk.fmt = "jwe" /\ tk.enc = key

\* the signature of a token signed by signer checks under key
SignatureValid(alg, signer, key) ==
    IF alg = "HS256" THEN signer = key ELSE key = PublicOf(signer)

\* options["leeway"], lines 246-247
Leeway == IF MAX_CLOCK_SKEW_SECONDS > 0 THEN MAX_CLOCK_SKEW_SECONDS ELSE 0

\* jwt.decode(decrypted_token, verify_key, algorithms=[ALGORITHM], options):
\* the exception it raises, "none" when it returns the payload
JwtDecode(tk, verify_key) ==
    LET c == tk.claims
    IN IF tk.fmt # "jwt" THEN "JWTError"
       ELSE IF tk.alg # ALGORITHM THEN "JWTError"
       ELSE IF ~SignatureValid(tk.alg, tk.signer, verify_key) THEN "JWTError"
       ELSE IF "iat" \in DOMAIN c /\ c.iat.t # "num" THEN "JWTClaimsError"
       ELSE IF "nbf" \in DOMAIN c /\ c.nbf.t # "num" THEN "JWTClaimsError"
       ELSE IF "nbf" \in DOMAIN c /\ c.nbf.n > now + Leeway THEN "JWTClaimsError"
       ELSE IF "exp" \in DOMAIN c /\ c.exp.t # "num" THEN "JWTClaimsError"
       ELSE IF "exp" \in DOMAIN c /\ c.exp.n < now - Leeway THEN "ExpiredSignatureError"
       ELSE IF "sub" \in DOMAIN c /\ ~IsStr(c.sub) THEN "JWTClaimsError"
       ELSE IF "jti" \in DOMAIN c /\ ~IsStr(c.jti) THEN "JWTClaimsError"
       ELSE "none"

\* except (JWTError, JWTClaimsError), line 263
LoopCatches(exc) == "JWTError" \in Mro(exc) \/ "JWTClaimsError" \in Mro(exc)

\* lines 233-265: the candidates tried in order from the i-th on
RECURSIVE TryKeys(_, _, _)
TryKeys(tk, verify_keys, i) ==
    IF i > Len(verify_keys)
    THEN [found |-> FALSE, raised |-> "none", tried |-> i - 1]
    ELSE LET exc == JwtDecode(tk, verify_keys[i].key)
         IN IF exc = "none" THEN [found |-> TRUE, raised |-> "none", tried |-> i]
            ELSE IF LoopCatches(exc) THEN TryKeys(tk, verify_keys, i + 1)
            ELSE [found |-> FALSE, raised |-> exc, tried |-> i]

ValidateTokenClaimsPresenceOnly(payload) ==
    IF "sub" \notin DOMAIN payload \/ "role" \notin DOMAIN payload THEN "JWTClaimsError"
    ELSE "none"

\* _validate_token_claims: the exception it raises, "none" when it returns
ValidateTokenClaims(payload) ==
    IF "sub" \notin DOMAIN payload \/ "role" \notin DOMAIN payload THEN "JWTClaimsError"
    ELSE IF Falsy(payload.sub) \/ ~IsStr(payload.sub) THEN "JWTClaimsError"
    ELSE IF Falsy(payload.role) \/ ~IsStr(payload.role) THEN "JWTClaimsError"
    ELSE IF "jti" \in DOMAIN payload /\ Falsy(payload.jti) THEN "JWTClaimsError"
    ELSE "none"

\* the largest timestamp datetime.fromtimestamp accepts (the end of year 9999)
MaxTimestamp == 100

\* _perform_security_checks: it logs and returns, unless
\* datetime.fromtimestamp(payload["iat"]) rejects iat: a value that is no
\* number, or a number outside the range of datetime
PerformSecurityChecks(payload) ==
    IF "iat" \notin DOMAIN payload THEN "none"
    ELSE IF payload.iat.t # "num" THEN "TypeError"
    ELSE IF payload.iat.n > MaxTimestamp \/ payload.iat.n < 0 - MaxTimestamp
    THEN "OverflowError"
    ELSE "none"

DecryptCurrentKeyOnly(tk) ==
    IF ~ENABLE_JWE THEN [raised |-> "none", token |-> tk, keys_tried |-> <<>>]
    ELSE IF JweDecrypts(tk, JWT_SECRET)
    THEN [raised |-> "none", token |-> [tk EXCEPT !.fmt = "jwt", !.enc = NoSecret],
          keys_tried |-> <<JWT_SECRET>>]
    ELSE [raised |-> "JWEError", token |-> tk, keys_tried |-> <<JWT_SECRET>>]

\* lines 209-226: the exception of the decryption step, the signed token, and
\* the keys jwe.decrypt was called with, in order
Decrypt(tk) ==
    LET inner == [tk EXCEPT !.fmt = "jwt", !.enc = NoSecret]
    IN IF ~ENABLE_JWE THEN [raised |-> "none", token |-> tk, keys_tried |-> <<>>]
       ELSE IF JweDecrypts(tk, JWT_SECRET)
       THEN [raised |-> "none", token |-> inner, keys_tried |-> <<JWT_SECRET>>]
       ELSE IF KEY_ROTATION_ENABLED /\ JWT_SECRET_PREVIOUS # NoSecret
       THEN IF JweDecrypts(tk, JWT_SECRET_PREVIOUS)
            THEN [raised |-> "none", token |-> inner,
                  keys_tried |-> <<JWT_SECRET, JWT_SECRET_PREVIOUS>>]
            ELSE [raised |-> "JWEError", token |-> tk,
                  keys_tried |-> <<JWT_SECRET, JWT_SECRET_PREVIOUS>>]
       ELSE [raised |-> "JWEError", token |-> tk, keys_tried |-> <<JWT_SECRET>>]

\* lines 209-279 under a given JWT_STRICT_MODE: the exception that leaves the
\* try block, "none" on return
VerifyRaisesWith(tk, strict_mode) ==
    LET d == Decrypt(tk)
        r == TryKeys(d.token, GetVerifyKeys, 1)
    IN IF d.raised # "none" THEN d.raised
       ELSE IF r.raised # "none" THEN r.raised
       ELSE IF ~r.found THEN "JWTError"
       ELSE IF ValidateTokenClaims(d.token.claims) # "none"
       THEN ValidateTokenClaims(d.token.claims)
       ELSE IF strict_mode THEN PerformSecurityChecks(d.token.claims)
       ELSE "none"

VerifyRaises(tk) == VerifyRaisesWith(tk, STRICT_MODE)

\* lines 281-298: the detail of the HTTPException an exception is turned into
HandlerDetail(exc) ==
    IF "ExpiredSignatureError" \in Mro(exc) THEN "Token expired"
    ELSE IF "JWTError" \in Mro(exc) \/ "JWTClaimsError" \in Mro(exc) THEN "Invalid token"
    ELSE "Invalid token format"

\* verify_token(tk) under a given JWT_STRICT_MODE: the detail of its
\* HTTPException ("none" when it returns) and the claims it returns
VerifyOutcomeWith(tk, strict_mode) ==
    IF IsBlank(tk) THEN [detail |-> "Token is required", claims |-> NoClaims]
    ELSE IF VerifyRaisesWith(tk, strict_mode) = "none"
    THEN [detail |-> "none", claims |-> tk.claims]
    ELSE [detail |-> HandlerDetail(VerifyRaisesWith(tk, strict_mode)), claims |-> NoClaims]

\* the detail of the HTTPException of verify_token(tk), "none" when it returns
VerifyDetail(tk) == VerifyOutcomeWith(tk, STRICT_MODE).detail

\* the key ids of the candidates jwt.decode was called with, in order
CandidatesTried(tk) ==
    LET d == Decrypt(tk)
        verify_keys == GetVerifyKeys
    IN IF IsBlank(tk) \/ d.raised # "none" THEN <<>>
       ELSE [i \in 1..TryKeys(d.token, verify_keys, 1).tried |-> verify_keys[i].key_id]

\* line 264: verification_errors, one entry per failed candidate
VerificationErrors(tk) ==
    LET d == Decrypt(tk)
        verify_keys == GetVerifyKeys
        r == TryKeys(d.token, verify_keys, 1)
    IN [i \in 1..(IF r.found THEN r.tried - 1 ELSE r.tried) |->
           [key_id |-> verify_keys[i].key_id,
            reason |-> JwtDecode(d.token, verify_keys[i].key)]]

AllKeysFailedWithDetails(verification_errors) == verification_errors

\* lines 267-270: what of verification_errors the raised JWTError carries;
\* they go to logger.warning, the exception has a fixed message
AllKeysFailed(verification_errors) == <<>>

\* the per-candidate diagnostics that the exception leaving verify_token
\* carries
Exposed(tk) ==
    LET d == Decrypt(tk)
    IN IF ~IsBlank(tk) /\ d.raised = "none"
          /\ ~TryKeys(d.token, GetVerifyKeys, 1).found
          /\ TryKeys(d.token, GetVerifyKeys, 1).raised = "none"
       THEN AllKeysFailed(VerificationErrors(tk))
       ELSE <<>>

\* the keys jwe.decrypt was called with, in order
DecryptsTried(tk) == IF IsBlank(tk) THEN <<>> ELSE Decrypt(tk).keys_tried

VerifyToken(tk) ==
    /\ last' = [Call("verify", NoKey, VerifyDetail(tk), "none", 0, <<>>) EXCEPT
                   !.tok = tk,
                   !.out = IF VerifyDetail(tk) = "none" THEN tk.claims ELSE NoClaims,
                   !.decrypts = DecryptsTried(tk),
                   !.tried = CandidatesTried(tk),
                   !.exposed = Exposed(tk)]
    /\ UNCHANGED <<keys, disk, hasPath, now, nextSecret, ioFailures, cfg, issued, conc>>

\* ------------------------------------------------------ inputs of the codec
BasePayload == [sub |-> Str("alice"), role |-> Str("admin")]

Payloads ==
    {BasePayload,
     [role |-> Str("admin")],
     [sub |-> Str("alice")],
     [sub |-> Str(""), role |-> Str("admin")],
     [sub |-> Num(5), role |-> Str("admin")],
     [sub |-> Str("alice"), role |-> Str("")],
     [sub |-> Str("alice"), role |-> Num(5)],
     Merge(BasePayload, [exp |-> Num(0 - 5)]),
     Merge(BasePayload, [exp |-> Num(50)]),
     Merge(BasePayload, [jti |-> Str("")]),
     Merge(BasePayload, [iat |-> Num(MaxTimestamp + 1)])}

Deltas == {NoDelta, 0 - 1, 0, 1}

\* key_id arguments: None, the id of the first key the manager generates, and
\* the id of a key that neither the manager nor the configuration knows
KeyIdOverrides == {NoKey, KeyIdOf(1), KeyIdOf(ForeignSecret)}

\* tokens that create_token of this process did not issue: the empty string,
\* a string that is no token, and tokens signed with another key
ForeignTokens ==
    {Token("empty", "none", NoSecret, NoSecret, NoClaims),
     Token("blank", "none", NoSecret, NoSecret, NoClaims),
     Token("garbage", "none", NoSecret, NoSecret, NoClaims)}
    \cup {Token("jwt", "HS256", s, NoSecret,
                Merge(BasePayload, [iat |-> Num(0), nbf |-> Num(0), exp |-> Num(e),
                                    jti |-> Str("nonce"), kid |-> Kid(KeyIdOf(s))])) :
             s \in {PreviousSecret, ForeignSecret}, e \in {0, 5}}
    \cup {Token("jwe", "HS256", s, s,
                Merge(BasePayload, [iat |-> Num(0), nbf |-> Num(0), exp |-> Num(5),
                                    jti |-> Str("nonce"), kid |-> Kid(KeyIdOf(s))])) :
             s \in {PreviousSecret, ForeignSecret}}

\* ------------------------------------------ activate_key, statement by statement
\* The manager holds no lock around its methods (the only lock of the module
\* guards the singleton's construction), so the interpreter may switch threads
\* between any two statements of activate_key.
Threads == {"t1", "t2"}

\* a thread outside activate_key
IdleThread == [pc |-> "idle", key_id |-> NoKey, i |-> 0, alone |-> FALSE, err |-> "none"]

NoObservation == [by |-> "none", active |-> NoKey, count |-> 0, flags |-> <<>>,
                  during |-> FALSE]

Others(t) == Threads \ {t}

\* line 155-156: the call is entered and the key id looked up. alone records
\* that the call started on a store with exactly one active key while no
\* other thread was inside activate_key; a second caller clears it.
BeginActivate(t, key_id) ==
    /\ threads[t].pc = "idle"
    /\ threads' =
         IF key_id \notin Ids(keys)
         THEN [threads EXCEPT ![t] = [IdleThread EXCEPT !.key_id = key_id,
                                                         !.err = "KeyNotFound"]]
         ELSE [u \in Threads |->
                 IF u = t
                 THEN [pc |-> "loop", key_id |-> key_id, i |-> 1,
                       alone |-> /\ Cardinality(ActiveIds(keys)) = 1
                                 /\ \A v \in Others(t) : threads[v].pc = "idle",
                       err |-> "none"]
                 ELSE [threads[u] EXCEPT !.alone = FALSE]]
    /\ UNCHANGED <<keys, disk, hasPath, now, nextSecret, ioFailures, last, cfg, issued,
                   observed, aside>>

\* lines 159-160: one iteration of the loop, or its exit
DeactivateNext(t) ==
    /\ threads[t].pc = "loop"
    /\ LET i == threads[t].i
       IN IF i <= Len(keys)
          THEN /\ keys' = [keys EXCEPT ![i].is_active = FALSE]
               /\ threads' = [threads EXCEPT ![t].i = i + 1]
          ELSE /\ threads' = [threads EXCEPT ![t].pc = "activate"]
               /\ UNCHANGED keys
    /\ UNCHANGED <<disk, hasPath, now, nextSecret, ioFailures, last, cfg, issued, observed,
                   aside>>

\* line 162
SetActive(t) ==
    /\ threads[t].pc = "activate"
    /\ keys' = [i \in 1..Len(keys) |->
                  IF keys[i].key_id = threads[t].key_id
                  THEN [keys[i] EXCEPT !.is_active = TRUE] ELSE keys[i]]
    /\ threads' = [threads EXCEPT ![t].pc = "stamp"]
    /\ UNCHANGED <<disk, hasPath, now, nextSecret, ioFailures, last, cfg, issued, observed,
                   aside>>

\* line 163
StampLastUsed(t) ==
    /\ threads[t].pc = "stamp"
    /\ keys' = [i \in 1..Len(keys) |->
                  IF keys[i].key_id = threads[t].key_id
                  THEN [keys[i] EXCEPT !.last_used = now] ELSE keys[i]]
    /\ threads' = [threads EXCEPT ![t].pc = "check"]
    /\ UNCHANGED <<disk, hasPath, now, nextSecret, ioFailures, last, cfg, issued, observed,
                   aside>>

\* line 166: the finally clause's test
CheckAnyActive(t) ==
    /\ threads[t].pc = "check"
    /\ threads' = [threads EXCEPT ![t].pc = IF ActiveIds(keys) = {} THEN "fallback"
                                            ELSE "save"]
    /\ UNCHANGED <<keys, disk, hasPath, now, nextSecret, ioFailures, last, cfg, issued,
                   observed, aside>>

\* line 167
Fallback(t) ==
    /\ threads[t].pc = "fallback"
    /\ keys' = [i \in 1..Len(keys) |->
                  IF keys[i].key_id = threads[t].key_id
                  THEN [keys[i] EXCEPT !.is_active = TRUE] ELSE keys[i]]
    /\ threads' = [threads EXCEPT ![t].pc = "save"]
    /\ UNCHANGED <<disk, hasPath, now, nextSecret, ioFailures, last, cfg, issued, observed,
                   aside>>

\* line 168: _save_metadata on a healthy file system, then the return
SaveAndReturn(t) ==
    /\ threads[t].pc = "save"
    /\ disk' = SaveDisk(disk, keys, "ok")
    /\ threads' = [threads EXCEPT ![t] = [IdleThread EXCEPT !.key_id = threads[t].key_id,
                                                             !.err = "returned"]]
    /\ UNCHANGED <<keys, hasPath, now, nextSecret, ioFailures, last, cfg, issued, observed,
                   aside>>

\* get_active_key_id (lines 177-180) and list_keys by a thread that is not
\* itself inside activate_key, taken as one snapshot of the store. during
\* records that another thread is inside a call that started alone.
ReadStore(t) ==
    /\ threads[t].pc = "idle"
    /\ observed' = [by |-> t,
                    active |-> GetActiveKeyId(keys),
                    count |-> Cardinality(ActiveIds(keys)),
                    flags |-> [i \in 1..Len(keys) |-> keys[i].is_active],
                    during |-> \E u \in Others(t) :
                                  threads[u].pc # "idle" /\ threads[u].alone]
    /\ UNCHANGED <<keys, disk, hasPath, now, nextSecret, ioFailures, last, cfg, issued,
                   threads, aside>>


\* --------------------------------------------------------------- _load_metadata
\* the inverse of Serialize; rotation_count and last_used have defaults
Deserialize(entries) ==
    [i \in 1..Len(entries) |->
        [entries[i] EXCEPT !.created_at = FromIsoFormat(entries[i].created_at),
                           !.last_used = IF entries[i].last_used # JsonNull
                                         THEN FromIsoFormat(entries[i].last_used)
                                         ELSE NoTime]]

\* The states of the document at storage_path: "ok" and "corrupt" (not JSON)
\* are what _save_metadata leaves; the others come from outside: "unreadable"
\* (open() refuses), "not_object" (a JSON value that is not an object), and
\* documents whose last entry lacks a field ("entry_lacks_field"), has a
\* created_at that is no ISO date ("entry_bad_date") or a created_at that is
\* not a string ("entry_bad_type").

\* except (json.JSONDecodeError, KeyError, ValueError), line 87
LoadCatches(exc) == exc \in {"JSONDecodeError", "KeyError", "ValueError"}

\* the exception of lines 71-86 for a document, "none" when they complete
LoadException(doc) ==
    CASE doc.state = "unreadable" -> "PermissionError"
      [] doc.state = "corrupt" -> "JSONDecodeError"
      [] doc.state = "not_object" -> "AttributeError"
      [] doc.state = "entry_lacks_field" -> "KeyError"
      [] doc.state = "entry_bad_date" -> "ValueError"
      [] doc.state = "entry_bad_type" -> "TypeError"
      [] OTHER -> "none"

\* the entries that lines 75-86 have put into self._keys when they stop: the
\* loop assigns entry by entry, so a bad last entry leaves the earlier ones
LoadedEntries(doc) ==
    IF doc.state = "ok" THEN Deserialize(doc.keys)
    ELSE IF doc.state \in {"entry_lacks_field", "entry_bad_date", "entry_bad_type"}
    THEN Deserialize(SubSeq(doc.keys, 1, Len(doc.keys) - 1))
    ELSE <<>>

\* SecureKeyManager(storage_path): the exception that leaves __init__ ("none"
\* when it returns) and self._keys
Construct(doc) ==
    IF ~hasPath \/ doc.state = "missing" THEN [raised |-> "none", keys |-> <<>>]
    ELSE IF LoadException(doc) = "none" \/ LoadCatches(LoadException(doc))
    THEN [raised |-> "none", keys |-> LoadedEntries(doc)]
    ELSE [raised |-> LoadException(doc), keys |-> LoadedEntries(doc)]

\* -------------------------------------------------------------- get_key_manager
Callers == 1..MaxCallers

NoCaller == 0           \* the lock is free
NoInstance == 0         \* _key_manager is None

IdleCaller == [pc |-> "idle", ret |-> NoInstance, err |-> "none"]

NoManager ==
    [lock |-> NoCaller, instance |-> NoInstance, constructed |-> 0,
     callers |-> [t \in Callers |-> IdleCaller]]

LockAlwaysFree(holder) == TRUE

\* _key_manager_lock can be acquired
LockFree(holder) == holder = NoCaller

\* line 295: the call is entered
EnterGet(t) ==
    /\ once.callers[t].pc = "idle"
    /\ once' = [once EXCEPT !.callers[t] = [IdleCaller EXCEPT !.pc = "lock"]]
    /\ UNCHANGED <<keys, disk, hasPath, now, nextSecret, ioFailures, last, cfg, issued,
                   threads, observed, probe>>

\* line 296: with _key_manager_lock
AcquireLock(t) ==
    /\ once.callers[t].pc = "lock"
    /\ LockFree(once.lock)
    /\ once' = [once EXCEPT !.lock = t, !.callers[t].pc = "test"]
    /\ UNCHANGED <<keys, disk, hasPath, now, nextSecret, ioFailures, last, cfg, issued,
                   threads, observed, probe>>

\* line 297: if _key_manager is None
TestInstance(t) ==
    /\ once.callers[t].pc = "test"
    /\ once' = [once EXCEPT !.callers[t].pc =
                   IF once.instance = NoInstance THEN "construct" ELSE "release"]
    /\ UNCHANGED <<keys, disk, hasPath, now, nextSecret, ioFailures, last, cfg, issued,
                   threads, observed, probe>>

\* line 298: _key_manager = SecureKeyManager(storage_path); an exception of
\* the constructor leaves the with block, which releases the lock
ConstructManager(t) ==
    /\ once.callers[t].pc = "construct"
    /\ LET r == Construct(disk)
       IN IF r.raised # "none"
          THEN /\ once' = [once EXCEPT
                              !.lock = IF once.lock = t THEN NoCaller ELSE once.lock,
                              !.callers[t] = [IdleCaller EXCEPT !.err = r.raised]]
               /\ UNCHANGED keys
          ELSE /\ once' = [once EXCEPT !.instance = once.constructed + 1,
                                       !.constructed = once.constructed + 1,
                                       !.callers[t].pc = "release"]
               /\ keys' = r.keys
    /\ UNCHANGED <<disk, hasPath, now, nextSecret, ioFailures, last, cfg, issued,
                   threads, observed, probe>>

\* the end of the with block
ReleaseLock(t) ==
    /\ once.callers[t].pc = "release"
    /\ once' = [once EXCEPT !.lock = IF once.lock = t THEN NoCaller ELSE once.lock,
                            !.callers[t].pc = "return"]
    /\ UNCHANGED <<keys, disk, hasPath, now, nextSecret, ioFailures, last, cfg, issued,
                   threads, observed, probe>>

\* line 300: return _key_manager
ReturnInstance(t) ==
    /\ once.callers[t].pc = "return"
    /\ once' = [once EXCEPT !.callers[t] = [IdleCaller EXCEPT !.ret = once.instance]]
    /\ UNCHANGED <<keys, disk, hasPath, now, nextSecret, ioFailures, last, cfg, issued,
                   threads, observed, probe>>

\* ------------------------------------------------------------------ probes
NoProbe == [op |-> "none"]

\* _validate_secret_strength(secret, min_length)
ProbeValidate(secret, min_length) ==
    /\ probe' = [op |-> "validate", secret |-> secret, min_length |-> min_length,
                 raised |-> Validate(secret, min_length)]
    /\ UNCHANGED <<keys, disk, hasPath, now, nextSecret, ioFailures, last, cfg, issued,
                   threads, observed, once>>

\* _generate_secure_secret(length)
ProbeGenerate(length) ==
    /\ probe' = [op |-> "generate_secret", length |-> length,
                 secret |-> GenerateSecureSecret(length),
                 raised |-> Validate(GenerateSecureSecret(length), MIN_SECRET_LENGTH)]
    /\ UNCHANGED <<keys, disk, hasPath, now, nextSecret, ioFailures, last, cfg, issued,
                   threads, observed, once>>

\* ------------------------------------------------- auth.py and decorators.py
NoCredentials == NoToken    \* no Authorization header: credentials is None
NoUser == NoClaims          \* user is None

\* get_current_user(credentials): the HTTPException it raises (status 0 when
\* it returns) and the mapping it returns
GetCurrentUser(credentials) ==
    IF credentials = NoCredentials
    THEN [status |-> 401, detail |-> "Authorization header required", user |-> NoUser]
    ELSE IF VerifyDetail(credentials) # "none"
    THEN [status |-> 401, detail |-> VerifyDetail(credentials), user |-> NoUser]
    ELSE [status |-> 0, detail |-> "none", user |-> credentials.claims]

RoleDiffersNever(user, role) == FALSE

\* user.get("role") != role
RoleDiffers(user, role) == "role" \notin DOMAIN user \/ user.role # Str(role)

\* wrapper(*args, **kwargs) of rbac_protect(role)(func). passed says how the
\* caller hands over the user ("keyword", "positional", at the position of
\* func's user parameter, or "absent"); has_user_param says whether func
\* declares a parameter named user. The result is the HTTPException raised
\* (status 200 when func returned, 500 when the call of func raised
\* TypeError for a keyword it does not declare) and whether func's body ran.
Wrapper(role, has_user_param, passed, given) ==
    LET from_kwargs == IF passed = "keyword" THEN given ELSE NoUser
        user == IF from_kwargs # NoUser THEN from_kwargs
                ELSE IF has_user_param /\ passed = "positional" THEN given
                ELSE NoUser
    IN IF user = NoUser
       THEN [status |-> 401, detail |-> "User not authenticated", invoked |-> FALSE]
       ELSE IF RoleDiffers(user, role)
       THEN [status |-> 403, detail |-> "Insufficient privileges", invoked |-> FALSE]
       ELSE IF passed = "keyword" /\ ~has_user_param
       THEN [status |-> 500, detail |-> "TypeError", invoked |-> FALSE]
       ELSE [status |-> 200, detail |-> "none", invoked |-> TRUE]

\* a request to a protected route: FastAPI resolves Depends(get_current_user)
\* and, unless it raised, calls the wrapper with user as a keyword
Request(role, has_user_param, credentials) ==
    /\ LET dep == GetCurrentUser(credentials)
           r == Wrapper(role, has_user_param, "keyword", dep.user)
       IN probe' = [op |-> "request", role |-> role, user |-> dep.user,
                    supplied |-> dep.status = 0, has_user_param |-> has_user_param,
                    status |-> IF dep.status # 0 THEN dep.status ELSE r.status,
                    detail |-> IF dep.status # 0 THEN dep.detail ELSE r.detail,
                    invoked |-> dep.status = 0 /\ r.invoked]
    /\ UNCHANGED <<keys, disk, hasPath, now, nextSecret, ioFailures, last, cfg, issued,
                   threads, observed, once>>

\* a direct call of the wrapped handler
CallWrapper(role, has_user_param, passed, given) ==
    /\ LET r == Wrapper(role, has_user_param, passed, given)
       IN probe' = [op |-> "call", role |-> role,
                    user |-> IF passed = "absent" \/ (passed = "positional" /\ ~has_user_param)
                             THEN NoUser ELSE given,
                    supplied |-> given # NoUser /\ passed # "absent"
                                 /\ (passed = "positional" => has_user_param),
                    has_user_param |-> has_user_param,
                    status |-> r.status, detail |-> r.detail, invoked |-> r.invoked]
    /\ UNCHANGED <<keys, disk, hasPath, now, nextSecret, ioFailures, last, cfg, issued,
                   threads, observed, once>>


\* ------------------------------------------------------------------- clock
Tick ==
    /\ now < MaxTime
    /\ now' = now + 1
    /\ last' = Call("tick", NoKey, "none", "none", 0, <<>>)
    /\ UNCHANGED <<keys, disk, hasPath, nextSecret, ioFailures, cfg, issued, conc>>

Algorithms == {"HS256"}
Lengths == {16, 64}
MaxAgeDays == {0 - 1, 0, 1}

Init ==
    /\ keys = <<>>
    /\ disk = [state |-> "missing", keys |-> <<>>]
    /\ hasPath \in BOOLEAN
    /\ now = 0
    /\ nextSecret = 0
    /\ ioFailures = 0
    /\ last = [op |-> "init", arg |-> NoKey, at |-> 0, err |-> "none", io |-> "none",
               ret |-> 0, list |-> <<>>, tok |-> NoToken, out |-> NoClaims,
               decrypts |-> <<>>, tried |-> <<>>, exposed |-> <<>>,
               payload |-> NoClaims]
    /\ cfg = DefaultConfig
    /\ issued = NoIssued
    /\ threads = [t \in Threads |-> IdleThread]
    /\ observed = NoObservation
    /\ once = NoManager
    /\ probe = NoProbe

Generate == \E a \in Algorithms, n \in Lengths, io \in IoOutcomes : GenerateKey(a, n, io)

\* key_id arguments: the ids the manager can have generated, and one id it
\* never generates
ActivateArgs == {KeyIdOf(i) : i \in 1..MaxKeys} \cup {KeyIdOf(ForeignSecret)}

Activate == \E k \in ActivateArgs, io \in IoOutcomes : ActivateKey(k, io)

Rotate ==
    \E a \in Algorithms, n \in Lengths, io1 \in IoOutcomes, io2 \in IoOutcomes :
       RotateKey(a, n, io1, io2)

Cleanup ==
    \E d \in MaxAgeDays, dry \in BOOLEAN, io \in IoOutcomes : CleanupOldKeys(d, dry, io)

\* the key manager on its own, with or without a store document
Next ==
    \/ Generate
    \/ Activate
    \/ Rotate
    \/ Cleanup
    \/ Tick

Spec == Init /\ [][Next]_vars

\* the token codec on its own, under every configuration
InitTok ==
    /\ keys = <<>>
    /\ disk = [state |-> "missing", keys |-> <<>>]
    /\ hasPath = FALSE
    /\ now = 0
    /\ nextSecret = 0
    /\ ioFailures = 0
    /\ last = [op |-> "init", arg |-> NoKey, at |-> 0, err |-> "none", io |-> "none",
               ret |-> 0, list |-> <<>>, tok |-> NoToken, out |-> NoClaims,
               decrypts |-> <<>>, tried |-> <<>>, exposed |-> <<>>,
               payload |-> NoClaims]
    /\ cfg \in Configs
    /\ issued = NoIssued
    /\ threads = [t \in Threads |-> IdleThread]
    /\ observed = NoObservation
    /\ once = NoManager
    /\ probe = NoProbe

\* every payload with the default lifetime and key id, and the plain payload
\* with every lifetime and every key id override
CreateInputs ==
    {<<p, NoDelta, NoKey>> : p \in Payloads}
    \cup {<<BasePayload, d, NoKey>> : d \in Deltas}
    \cup {<<BasePayload, NoDelta, k>> : k \in KeyIdOverrides}

Create == \E in \in CreateInputs : CreateToken(in[1], in[2], in[3])

Verify == \E tk \in {issued.tok} \cup ForeignTokens : tk.fmt # "none" /\ VerifyToken(tk)

NextTok ==
    \/ Create
    \/ Verify
    \/ Tick

SpecTok == InitTok /\ [][NextTok]_vars

\* the codec beside an in-memory key manager, HS256 without encryption
InitRot ==
    /\ InitTok
    /\ cfg.alg = "HS256" /\ ~cfg.jwe /\ cfg.strict /\ cfg.skew = 0

CreatePlain == \E k \in KeyIdOverrides : CreateToken(BasePayload, NoDelta, k)

VerifyIssued == issued.tok.fmt # "none" /\ VerifyToken(issued.tok)

CleanupForReal == \E d \in MaxAgeDays : CleanupOldKeys(d, FALSE, "ok")

NextRot ==
    \/ Generate
    \/ Activate
    \/ Rotate
    \/ CleanupForReal
    \/ CreatePlain
    \/ VerifyIssued
    \/ Tick

SpecRot == InitRot /\ [][NextRot]_vars

\* two threads sharing one manager whose store holds MaxKeys keys, the first
\* of them active
ConcStore ==
    [i \in 1..MaxKeys |->
        [key_id |-> KeyIdOf(i), created_at |-> 0, algorithm |-> "HS256",
         key_length |-> TokenUrlsafeLen(64), is_active |-> i = 1,
         rotation_count |-> 0, last_used |-> IF i = 1 THEN 0 ELSE NoTime]]

InitConc ==
    /\ keys = ConcStore
    /\ hasPath = TRUE
    /\ disk = [state |-> "ok", keys |-> Serialize(ConcStore)]
    /\ now = MaxTime
    /\ nextSecret = MaxKeys
    /\ ioFailures = 0
    /\ last = [op |-> "init", arg |-> NoKey, at |-> 0, err |-> "none", io |-> "none",
               ret |-> 0, list |-> <<>>, tok |-> NoToken, out |-> NoClaims,
               decrypts |-> <<>>, tried |-> <<>>, exposed |-> <<>>,
               payload |-> NoClaims]
    /\ cfg = DefaultConfig
    /\ issued = NoIssued
    /\ threads = [t \in Threads |-> IdleThread]
    /\ observed = NoObservation
    /\ once = NoManager
    /\ probe = NoProbe

Begin == \E t \in Threads, k \in ActivateArgs : BeginActivate(t, k)

Step ==
    \E t \in Threads :
       \/ DeactivateNext(t)
       \/ SetActive(t)
       \/ StampLastUsed(t)
       \/ CheckAnyActive(t)
       \/ Fallback(t)
       \/ SaveAndReturn(t)

Read == \E t \in Threads : ReadStore(t)

NextConc ==
    \/ Begin
    \/ Step
    \/ Read

SpecConc == InitConc /\ [][NextConc]_vars

\* the documents get_key_manager can find: every state of the document, over
\* the stores that generate and activate calls at time 0 leave
StoredKeys(n) == SubSeq(ConcStore, 1, n)

Documents ==
    {[state |-> st, keys |-> Serialize(StoredKeys(n))] :
        st \in {"ok", "entry_lacks_field", "entry_bad_date", "entry_bad_type"},
        n \in 1..MaxKeys}
    \cup {[state |-> st, keys |-> <<>>] :
            st \in {"missing", "ok", "corrupt", "unreadable", "not_object"}}

InitOnce ==
    /\ keys = <<>>
    /\ disk \in Documents
    /\ hasPath \in BOOLEAN
    /\ now = 0
    /\ nextSecret = 0
    /\ ioFailures = 0
    /\ last = [op |-> "init", arg |-> NoKey, at |-> 0, err |-> "none", io |-> "none",
               ret |-> 0, list |-> <<>>, tok |-> NoToken, out |-> NoClaims,
               decrypts |-> <<>>, tried |-> <<>>, exposed |-> <<>>,
               payload |-> NoClaims]
    /\ cfg = DefaultConfig
    /\ issued = NoIssued
    /\ threads = [t \in Threads |-> IdleThread]
    /\ observed = NoObservation
    /\ once = NoManager
    /\ probe = NoProbe

GetKeyManager ==
    \E t \in Callers :
       \/ EnterGet(t)
       \/ AcquireLock(t)
       \/ TestInstance(t)
       \/ ConstructManager(t)
       \/ ReleaseLock(t)
       \/ ReturnInstance(t)

NextOnce == GetKeyManager

\* callers of get_key_manager, statement by statement
SpecOnce == InitOnce /\ [][NextOnce]_vars

\* secrets for _validate_secret_strength: n characters cycling through the
\* first k of the URL-safe alphabet, alone or followed by a newline or by an
\* exclamation mark; the weak values in lower and in upper case; "password"
\* padded with one character and with varied ones
Cycle(k, n) == [i \in 1..n |-> UrlSafeChar((i - 1) % k)]

Upper(secret) ==
    [i \in 1..Len(secret) |->
        IF secret[i] \in 97..122 THEN secret[i] - 32 ELSE secret[i]]

Secrets ==
    {Cycle(k, n) \o sfx : k \in {1, 11, 12, 16, 64}, n \in {0, 10, 31, 32, 64},
                          sfx \in {<<>>, <<10>>, <<33>>}}      \* '', '\n', '!'
    \cup WeakValues
    \cup {Upper(w) : w \in WeakValues}
    \cup {<<112, 97, 115, 115, 119, 111, 114, 100>> \o Cycle(k, 24) : k \in {1, 24}}

MinLengths == {0, 4, MIN_SECRET_LENGTH}

RequestedLengths == {0, 1, 16, 24, 32, 64}

Roles == {"admin", "user"}

\* the payloads of the tokens that requests carry
UserPayloads ==
    {[sub |-> Str("alice"), role |-> Str(r)] : r \in {"admin", "user", "guest"}}
    \cup {[sub |-> Str(""), role |-> Str("admin")]}

\* bearer tokens: tokens of create_token, and tokens it did not issue
BearerTokens ==
    {CreateResult(p, d, NoKey).tok : p \in UserPayloads, d \in {NoDelta, 0 - 1}}
    \cup ForeignTokens

\* the mappings verify_token returns for them
VerifiedUsers == {tk.claims : tk \in {b \in BearerTokens : VerifyDetail(b) = "none"}}

InitProbe ==
    /\ InitTok
    /\ cfg = DefaultConfig

ValidateSecret == \E secret \in Secrets, m \in MinLengths : ProbeValidate(secret, m)

GenerateSecret == \E n \in RequestedLengths : ProbeGenerate(n)

ProtectedRequest ==
    \E role \in Roles, h \in BOOLEAN, c \in {NoCredentials} \cup BearerTokens :
        Request(role, h, c)

ProtectedCall ==
    \E role \in Roles, h \in BOOLEAN, passed \in {"keyword", "positional", "absent"},
       u \in {NoUser} \cup VerifiedUsers :
        CallWrapper(role, h, passed, u)

NextProbe ==
    \/ ValidateSecret
    \/ GenerateSecret
    \/ ProtectedRequest
    \/ ProtectedCall

\* calls of the functions that keep no state
SpecProbe == InitProbe /\ [][NextProbe]_vars

\* ================================================================== claims
WriteFailures == {"write_fail", "write_trunc"}

\* C1 (as stated): whenever the store is non-empty, exactly one key is active.
C1_ExactlyOneActiveWhenNonEmpty ==
    keys # <<>> => Cardinality(ActiveIds(keys)) = 1

\* C1 (amended): whenever the store is non-empty, either exactly one key is
\* active, or no key is active and no key of the store has ever been
\* activated (every last_used is None and every rotation_count is 0).
C1_OneActiveOrNeverActivated ==
    keys # <<>> =>
        \/ Cardinality(ActiveIds(keys)) = 1
        \/ /\ ActiveIds(keys) = {}
           /\ \A i \in 1..Len(keys) :
                 keys[i].last_used = NoTime /\ keys[i].rotation_count = 0

C1_Witness ==
    /\ last.op = "activate" /\ last.err = "none"
    /\ Len(keys) >= 2
    /\ Cardinality(ActiveIds(keys)) = 1

\* C2: after activate(key_id) returns for a stored key_id, that key is active
\* with last_used = the time of the call, and every other key is inactive.
C2_ActivatePostcondition ==
    (last.op = "activate" /\ last.err = "none") =>
        /\ last.arg \in Ids(keys)
        /\ Meta(keys, last.arg).is_active
        /\ Meta(keys, last.arg).last_used = last.at
        /\ ActiveIds(keys) = {last.arg}

C2_Witness ==
    /\ last.op = "activate" /\ last.err = "none"
    /\ \E i \in 1..Len(keys) :
          /\ keys[i].key_id # last.arg
          /\ keys[i].last_used # NoTime
          /\ ~keys[i].is_active

\* C3: after rotate returns new key n, n is stored, is the only active key
\* and has rotation_count 0; every key stored before is still stored; the key
\* that was active before is inactive with rotation_count one higher; no
\* other key's rotation_count changes.
C3_RotatePostcondition ==
    [][(last'.op = "rotate" /\ last'.err = "none") =>
          LET n == last'.arg
          IN /\ n \notin Ids(keys)
             /\ n \in Ids(keys')
             /\ ActiveIds(keys') = {n}
             /\ Meta(keys', n).rotation_count = 0
             /\ \A id \in Ids(keys) :
                   /\ id \in Ids(keys')
                   /\ Meta(keys', id).rotation_count =
                         Meta(keys, id).rotation_count
                           + (IF id \in ActiveIds(keys) THEN 1 ELSE 0)]_vars

C3_Witness ==
    /\ last.op = "rotate" /\ last.err = "none"
    /\ \E i \in 1..Len(keys) :
          /\ keys[i].key_id # last.arg
          /\ keys[i].rotation_count = 1
          /\ ~keys[i].is_active

\* C4: a cleanup call (dry run or not) keeps every key that is active before
\* it in the store, and active.
C4_CleanupKeepsActive ==
    [][last'.op \in {"cleanup", "cleanup_dry"} =>
          \A id \in ActiveIds(keys) : id \in ActiveIds(keys')]_vars

C4_Witness ==
    /\ last.op = "cleanup" /\ last.ret > 0
    /\ \E i \in 1..Len(keys) :
          keys[i].is_active /\ keys[i].created_at < last.at - last.arg

\* C10: a call during which writing the store document fails
\* reports the failure and leaves the in-memory store as it was.
C10_FailedPersistReportedAndRolledBack ==
    [][(last'.op \in {"generate", "activate", "rotate", "cleanup"}
          /\ last'.io \in WriteFailures \cup {"mkdir_fail"}) =>
          (last'.err = "OSError" /\ keys' = keys)]_vars

\* a claim value that is a non-empty string
NonEmptyStr(v) == v.t = "str" /\ v.s # ""

\* verify_token can read the signed token inside tk, and one of the
\* verification candidates checks its signature
SignedByCandidate(tk) ==
    /\ Decrypt(tk).raised = "none"
    /\ Decrypt(tk).token.fmt = "jwt"
    /\ tk.alg = ALGORITHM
    /\ \E i \in 1..Len(GetVerifyKeys) :
          SignatureValid(tk.alg, tk.signer, GetVerifyKeys[i].key)

\* the manager generated the key id and the store no longer holds it
Removed(id) == id \notin Ids(keys) /\ \E sec \in 1..nextSecret : KeyIdOf(sec) = id

\* C5: for every payload with non-empty sub and role, whatever else it
\* carries, verify(create(payload)) right after creation returns claims with
\* the payload's sub and role and with iat <= now <= exp.
C5_CreateThenVerifySucceeds ==
    (/\ last.op = "verify"
     /\ issued.tok.fmt # "none"
     /\ last.tok = issued.tok
     /\ last.at = issued.at
     /\ issued.delta = NoDelta
     /\ NonEmptyStr(issued.payload.sub)
     /\ NonEmptyStr(issued.payload.role)) =>
        /\ last.err = "none"
        /\ last.out.sub = issued.payload.sub
        /\ last.out.role = issued.payload.role
        /\ last.out.iat.n <= now
        /\ now <= last.out.exp.n

\* C6: verify of a token that a candidate key signed correctly and whose exp
\* has passed (beyond the leeway) fails with the detail "Token expired".
C6_ExpiredTokenReportedAsExpired ==
    (/\ last.op = "verify"
     /\ SignedByCandidate(last.tok)
     /\ "exp" \in DOMAIN last.tok.claims
     /\ last.tok.claims.exp.n < last.at - Leeway) =>
        last.err = "Token expired"

\* C7: with rotation enabled, a token that create_token issued verifies at
\* every later time up to its exp, whatever generate, activate, rotate and
\* cleanup calls the manager has completed since, as long as the key that
\* signed it has not been removed from the store.
C7_IssuedTokenSurvivesRotation ==
    (/\ last.op = "verify"
     /\ last.tok = issued.tok
     /\ KEY_ROTATION_ENABLED
     /\ now <= issued.tok.claims.exp.n
     /\ ~Removed(KeyIdOf(issued.tok.signer))) =>
        /\ last.err = "none"
        /\ last.out = issued.tok.claims

C7_Witness ==
    /\ last.op = "verify" /\ last.err = "none"
    /\ last.tok = issued.tok
    /\ KEY_ROTATION_ENABLED
    /\ \E i \in 1..Len(keys) : keys[i].is_active /\ keys[i].created_at > issued.at
    /\ \E i \in 1..Len(keys) : ~keys[i].is_active /\ keys[i].rotation_count >= 1

\* C8: verify fails with TokenInvalid for every token whose kid names a key
\* that is not in the store at verification time.
C8_UnknownKidRejected ==
    (/\ last.op = "verify"
     /\ "kid" \in DOMAIN last.tok.claims
     /\ last.tok.claims.kid.n \notin Ids(keys)) =>
        last.err \in {"Invalid token", "Invalid token format"}

\* C8, its scenario: a token whose issuing key cleanup has removed from the
\* store no longer verifies.
C8_RemovedKeyTokenRejected ==
    (/\ last.op = "verify"
     /\ "kid" \in DOMAIN last.tok.claims
     /\ Removed(last.tok.claims.kid.n)) =>
        last.err \in {"Invalid token", "Invalid token format"}
\* C9: while one thread executes activate_key on a store that had exactly one
\* active key, every read of the store by another thread observes exactly one
\* active key.
C9_ReadDuringActivateSeesOneActive ==
    observed.during => observed.count = 1 /\ observed.active # NoKey
\* C11: a cleanup call with dry_run = false removes exactly the keys that are
\* inactive and whose created_at is strictly earlier than now - max_age_days,
\* leaves every other key and its metadata unchanged (and in place), and,
\* when it returns, returns the number of keys it removed.
C11_CleanupRemovesExactlyOldInactive ==
    [][last'.op = "cleanup" =>
          LET old == {keys[i].key_id :
                        i \in {j \in 1..Len(keys) :
                                 /\ ~keys[j].is_active
                                 /\ keys[j].created_at < last'.at - last'.arg}}
          IN /\ keys' = SelectSeq(keys, LAMBDA m : m.key_id \notin old)
             /\ last'.err = "none" => last'.ret = Cardinality(old)]_vars

C11_Witness ==
    /\ last.op = "cleanup" /\ last.err = "none" /\ last.ret = 1
    /\ \E i \in 1..Len(keys) :
          ~keys[i].is_active /\ keys[i].created_at = last.at - last.arg
\* C12: generate, activate and rotate never remove an entry from the store
\* (every key id present before the call is present after it, with the
\* created_at, algorithm and key_length it had), and the set of key ids
\* shrinks only in a cleanup call that is not a dry run.
C12_OnlyCleanupRemoves ==
    [][/\ last'.op \in {"generate", "activate", "rotate"} =>
             \A i \in 1..Len(keys) :
                \E j \in 1..Len(keys') :
                   /\ keys'[j].key_id = keys[i].key_id
                   /\ keys'[j].created_at = keys[i].created_at
                   /\ keys'[j].algorithm = keys[i].algorithm
                   /\ keys'[j].key_length = keys[i].key_length
       /\ (Ids(keys) \ Ids(keys') # {}) => last'.op = "cleanup"]_vars

C12_Witness ==
    /\ last.op = "rotate"
    /\ Len(keys) >= 2
    /\ \E i \in 1..Len(keys) :
          /\ keys[i].key_id # last.arg
          /\ keys[i].last_used # NoTime
          /\ keys[i].rotation_count >= 1
\* C13: activate(key_id) with a key_id that is not in the store fails with
\* KeyNotFound and changes nothing: the store (every is_active and last_used,
\* the active key) is as before and the document is not rewritten.
C13_ActivateUnknownKeyChangesNothing ==
    [][(last'.op = "activate" /\ last'.arg \notin Ids(keys)) =>
          /\ last'.err = "KeyNotFound"
          /\ keys' = keys
          /\ disk' = disk
          /\ ioFailures' = ioFailures]_vars

C13_Witness ==
    /\ last.op = "activate" /\ last.err = "KeyNotFound"
    /\ last.arg \notin Ids(keys)
    /\ Cardinality(ActiveIds(keys)) = 1
    /\ hasPath /\ disk.state = "ok"
\* C14: verify tries the candidates in a fixed order and stops at the first
\* success. Symmetric: the current key first, the previous key only if
\* rotation is enabled, a previous key exists and the current key failed.
\* Asymmetric: exactly one candidate, the public key. A token that verifies
\* under the current key causes no attempt with the previous key.
C14_CandidateOrder ==
    (last.op = "verify" /\ ~IsBlank(last.tok) /\ Decrypt(last.tok).raised = "none") =>
        LET signed == Decrypt(last.tok).token
        IN /\ ALGORITHM = "RS256" => last.tried = <<RsaKeyId>>
           /\ ALGORITHM = "HS256" =>
                 /\ Len(last.tried) \in {1, 2}
                 /\ last.tried[1] = JWT_SECRET_ID
                 /\ Len(last.tried) = 2 <=>
                       /\ KEY_ROTATION_ENABLED
                       /\ JWT_SECRET_PREVIOUS # NoSecret
                       /\ JwtDecode(signed, JWT_SECRET) # "none"
                 /\ Len(last.tried) = 2 => last.tried[2] = JWT_SECRET_PREVIOUS_ID
           /\ SignatureValid(signed.alg, signed.signer, JWT_SECRET)
                 /\ last.err = "none" => last.tried = <<JWT_SECRET_ID>>

C14_Witness ==
    /\ last.op = "verify" /\ last.err = "none"
    /\ last.tried = <<JWT_SECRET_ID, JWT_SECRET_PREVIOUS_ID>>
    /\ last.tok.signer = JWT_SECRET_PREVIOUS
\* C15: verify returns claims only if at least one candidate key verified
\* the token's signature and temporal claims; if every candidate fails,
\* verify fails with the detail "Invalid token" and the error carries none of
\* the per-candidate failure reasons or key ids.
C15_NoCandidateNoClaims ==
    (last.op = "verify" /\ ~IsBlank(last.tok) /\ Decrypt(last.tok).raised = "none") =>
        LET signed == Decrypt(last.tok).token
            verified == {i \in 1..Len(GetVerifyKeys) :
                           JwtDecode(signed, GetVerifyKeys[i].key) = "none"}
        IN /\ last.err = "none" => verified # {}
           /\ verified = {} =>
                 /\ last.err = "Invalid token"
                 /\ last.out = NoClaims
                 /\ last.exposed = <<>>

C15_Witness ==
    /\ last.op = "verify" /\ last.err = "Invalid token"
    /\ Len(last.tried) = 2
    /\ last.tok.signer = ForeignSecret
    /\ Len(VerificationErrors(last.tok)) = 2
\* sub and role present, non-empty strings; jti, if present, not empty
MandatoryClaimsOk(c) ==
    /\ "sub" \in DOMAIN c /\ NonEmptyStr(c.sub)
    /\ "role" \in DOMAIN c /\ NonEmptyStr(c.role)
    /\ "jti" \in DOMAIN c => c.jti # Str("")

\* exp and nbf, where present, are numbers that admit the time t
TemporalClaimsOk(c, t) ==
    /\ "exp" \in DOMAIN c => c.exp.t = "num" /\ c.exp.n >= t - Leeway
    /\ "nbf" \in DOMAIN c => c.nbf.t = "num" /\ c.nbf.n <= t + Leeway

\* C16: verify never returns claims in which sub or role is missing, empty
\* or not a string, or in which jti is present but empty; a token with a
\* valid signature and valid temporal claims that violates one of these is
\* rejected with the detail "Invalid token", not "Token expired".
C16_MandatoryClaimsEnforced ==
    last.op = "verify" =>
        /\ last.err = "none" => MandatoryClaimsOk(last.out)
        /\ (/\ SignedByCandidate(last.tok)
            /\ TemporalClaimsOk(last.tok.claims, last.at)
            /\ ~MandatoryClaimsOk(last.tok.claims)) => last.err = "Invalid token"

C16_Witness ==
    /\ last.op = "verify" /\ last.err = "Invalid token"
    /\ SignedByCandidate(last.tok)
    /\ TemporalClaimsOk(last.tok.claims, last.at)
    /\ "role" \in DOMAIN last.tok.claims
    /\ last.tok.claims.role = Str("")
\* C17: create fails with InvalidPayload, and returns no token, for every
\* claims mapping in which sub or role is absent, is the empty string or is
\* not a string; it issues a token only when both are non-empty strings.
C17_CreateRejectsBadSubOrRole ==
    last.op = "create" =>
        LET ok == /\ "sub" \in DOMAIN last.payload /\ NonEmptyStr(last.payload.sub)
                  /\ "role" \in DOMAIN last.payload /\ NonEmptyStr(last.payload.role)
        IN /\ ok <=> (last.err = "none" /\ last.tok # NoToken)
           /\ ~ok => (last.err = "ValueError" /\ last.tok = NoToken)

\* C17, the part that holds: create fails with ValueError, and returns no
\* token, exactly when sub or role is absent from the payload.
C17_CreateRejectsAbsentSubOrRole ==
    last.op = "create" =>
        LET present == "sub" \in DOMAIN last.payload /\ "role" \in DOMAIN last.payload
        IN /\ present <=> (last.err = "none" /\ last.tok # NoToken)
           /\ ~present => (last.err = "ValueError" /\ last.tok = NoToken)
\* C18: verify called with an empty or whitespace-only token fails at once
\* (401, "Token is required"): no decryption and no signature verification
\* is attempted, whatever the encryption, rotation and algorithm settings.
C18_BlankTokenRejectedFirst ==
    (last.op = "verify" /\ last.tok.fmt \in {"empty", "blank"}) =>
        /\ last.err = "Token is required"
        /\ last.out = NoClaims
        /\ last.decrypts = <<>>
        /\ last.tried = <<>>

C18_Witness ==
    /\ last.op = "verify" /\ last.tok.fmt = "blank"
    /\ last.err = "Token is required"
    /\ ENABLE_JWE /\ KEY_ROTATION_ENABLED /\ ALGORITHM = "RS256"
\* C19: with encryption enabled, verify decrypts with the current key first
\* and with the previous key only if the current key failed, rotation is
\* enabled and a previous key exists; if decryption fails with every key it
\* tried, verify fails (401, not "Token expired") and no signature
\* verification is attempted.
C19_DecryptOrder ==
    (last.op = "verify" /\ ~IsBlank(last.tok) /\ ENABLE_JWE) =>
        /\ Len(last.decrypts) \in {1, 2}
        /\ last.decrypts[1] = JWT_SECRET
        /\ Len(last.decrypts) = 2 <=>
              /\ ~JweDecrypts(last.tok, JWT_SECRET)
              /\ KEY_ROTATION_ENABLED
              /\ JWT_SECRET_PREVIOUS # NoSecret
        /\ Len(last.decrypts) = 2 => last.decrypts[2] = JWT_SECRET_PREVIOUS
        /\ (\A i \in 1..Len(last.decrypts) : ~JweDecrypts(last.tok, last.decrypts[i])) =>
              /\ last.err \in {"Invalid token", "Invalid token format"}
              /\ last.out = NoClaims
              /\ last.tried = <<>>

C19_Witness ==
    /\ last.op = "verify" /\ last.err = "none"
    /\ ENABLE_JWE
    /\ last.decrypts = <<JWT_SECRET, JWT_SECRET_PREVIOUS>>
    /\ last.tok.enc = JWT_SECRET_PREVIOUS
\* verify rejects tk at time t for a reason other than expiry: tk is not
\* blank, and it is not a token that a candidate signed and whose exp has
\* passed
RejectedNotForExpiry(tk, t) ==
    /\ ~IsBlank(tk)
    /\ VerifyDetail(tk) # "none"
    /\ ~(/\ SignedByCandidate(tk)
         /\ "exp" \in DOMAIN tk.claims
         /\ tk.claims.exp.t = "num"
         /\ tk.claims.exp.n < t - Leeway)

\* C20: any two tokens that verify rejects for a non-expiry reason (bad
\* signature, mandatory-claim violation, decryption failure, malformed
\* format) get the same caller-visible outcome: the detail of the rejection
\* just made equals the detail of every other such rejection.
C20_RejectionsIndistinguishable ==
    (last.op = "verify" /\ RejectedNotForExpiry(last.tok, last.at)) =>
        \A tk \in ({issued.tok} \cup ForeignTokens) \ {NoToken} :
           RejectedNotForExpiry(tk, last.at) => VerifyDetail(tk) = last.err
\* C21: for a symmetric algorithm, every token returned by create carries kid
\* equal to the explicit key_id argument when one is given, and otherwise
\* equal to the key manager's active key id at creation time (stated for a
\* manager that has an active key).
C21_KidIsOverrideOrActiveKey ==
    (/\ last.op = "create" /\ last.err = "none"
     /\ ALGORITHM = "HS256"
     /\ ActiveIds(keys) # {}) =>
        /\ "kid" \in DOMAIN last.tok.claims
        /\ last.tok.claims.kid =
              Kid(IF last.arg # NoKey THEN last.arg ELSE GetActiveKeyId(keys))
\* C22: for every explicitly given ttl, including 0, the token returned by
\* create has exp = now + ttl with iat = nbf = now; the configured default
\* lifetime is used only when no ttl is given (stated for payloads that
\* carry no iat, nbf or exp of their own).
C22_ExplicitTtlIsUsed ==
    (/\ last.op = "create" /\ last.err = "none"
     /\ DOMAIN last.payload \cap {"iat", "nbf", "exp"} = {}) =>
        /\ last.tok.claims.iat = Num(last.at)
        /\ last.tok.claims.nbf = Num(last.at)
        /\ last.tok.claims.exp =
              Num(last.at + (IF issued.delta = NoDelta THEN ACCESS_TOKEN_EXPIRE_MINUTES
                             ELSE issued.delta))
\* C23: however the calls of get_key_manager interleave, SecureKeyManager is
\* constructed at most once, and every call that returns, returns that one
\* instance.
C23_ConstructedOnce ==
    /\ once.constructed <= 1
    /\ \A t \in Callers :
          (once.callers[t].pc = "idle" /\ once.callers[t].ret # NoInstance) =>
             once.callers[t].ret = 1 /\ once.instance = 1

C23_Witness ==
    /\ once.constructed = 1
    /\ \A t \in Callers : once.callers[t].pc = "idle" /\ once.callers[t].ret = 1

\* C24: constructing a manager never fails because of the store document: if
\* the document is missing, unreadable or malformed in any way, construction
\* succeeds and the manager starts with an empty store.
C24_BadDocumentGivesEmptyStore ==
    /\ \A t \in Callers : once.callers[t].err = "none"
    /\ (once.instance # NoInstance /\ disk.state # "ok") => keys = <<>>
\* C25: a successful generate adds exactly one new entry, with is_active false
\* and rotation_count 0, and changes nothing else: every key already in the
\* store is as it was, and the active key (if any) stays the active key.
C25_GenerateAddsOneInactiveKey ==
    [][(/\ last'.op = "generate" /\ last'.err = "none" /\ last' # last) =>
          /\ Len(keys') = Len(keys) + 1
          /\ \A i \in 1..Len(keys) : keys'[i] = keys[i]
          /\ keys'[Len(keys')].key_id = last'.arg
          /\ last'.arg \notin Ids(keys)
          /\ keys'[Len(keys')].is_active = FALSE
          /\ keys'[Len(keys')].rotation_count = 0
          /\ ActiveIds(keys') = ActiveIds(keys)]_vars

C25_Witness ==
    /\ last.op = "generate" /\ last.err = "none"
    /\ Len(keys) >= 2
    /\ keys[Len(keys)].key_id = last.arg
    /\ ActiveIds(keys) # {}
    /\ \E i \in 1..Len(keys) : keys[i].is_active /\ keys[i].last_used # NoTime
\* the rules of the strength check that a secret violates
BelowEntropy(secret) ==
    EntropyTimesLength(secret) < MIN_SECRET_ENTROPY_MICRO * Len(secret)

ViolatedRules(secret, min_length) ==
    {r \in {"empty", "too_short", "invalid_characters", "insufficient_entropy",
            "common_weak_value", "repeated_characters"} :
        \/ r = "empty" /\ secret = <<>>
        \/ r = "too_short" /\ Len(secret) < min_length
        \/ r = "invalid_characters" /\ \E i \in 1..Len(secret) : ~AllowedChar(secret[i])
        \/ r = "insufficient_entropy" /\ BelowEntropy(secret)
        \/ r = "common_weak_value" /\ Lower(secret) \in WeakValues
        \/ r = "repeated_characters" /\ 2 * Cardinality(Range(secret)) < Len(secret)}

\* C26: validate(secret, min_length) fails exactly when the secret is empty,
\* shorter than min_length, contains a character outside letters, digits and
\* + / = - _, has entropy below 3.5, equals a deny-listed word
\* case-insensitively, or has fewer than 50% distinct characters.
C26_ValidateFailsExactlyOnViolation ==
    probe.op = "validate" =>
        (probe.raised # "none" <=> ViolatedRules(probe.secret, probe.min_length) # {})

\* C27: the error of validate names every rule the secret violates, not only
\* the first one checked.
C27_ErrorNamesEveryViolatedRule ==
    (probe.op = "validate" /\ probe.raised # "none") =>
        ViolatedRules(probe.secret, probe.min_length) \subseteq RulesNamed(probe.raised)

\* C28: for every requested length, the secret the generator returns has
\* exactly that many characters (and generate records that length as
\* key_length).
C28_SecretHasRequestedLength ==
    probe.op = "generate_secret" => Len(probe.secret) = probe.length

\* C29: a handler wrapped by rbac_protect(role) is invoked only when a
\* verified user mapping is supplied and its role equals the required role;
\* with no user the outcome is 401, with a user whose role differs it is 403,
\* and in both cases the handler is not invoked.
C29_HandlerInvokedOnlyForRole ==
    probe.op \in {"request", "call"} =>
        /\ probe.invoked =>
              /\ probe.supplied
              /\ probe.user \in VerifiedUsers
              /\ probe.user.role = Str(probe.role)
        /\ ~probe.supplied => probe.status = 401 /\ ~probe.invoked
        /\ (probe.supplied /\ probe.user.role # Str(probe.role)) =>
              probe.status = 403 /\ ~probe.invoked

C29_Witness ==
    /\ probe.op = "request"
    /\ probe.supplied
    /\ probe.user.role = Str("user")
    /\ probe.role = "admin"
    /\ probe.status = 403
    /\ ~probe.invoked

C29_WitnessInvoked ==
    /\ probe.op = "request"
    /\ probe.invoked
    /\ probe.status = 200
\* C30: strict mode never changes the result of verify: for every token and
\* every configuration, verify with strict mode on and verify with strict
\* mode off return the same claims or fail with the same outcome.
C30_StrictModeChangesNothing ==
    (last.op = "verify" /\ last.at = now) =>
        /\ VerifyOutcomeWith(last.tok, TRUE) = VerifyOutcomeWith(last.tok, FALSE)
        /\ last.err = VerifyOutcomeWith(last.tok, FALSE).detail
\* C31: when two threads call activate on two different keys of the same
\* manager and their statements interleave in any order, then after both
\* calls have returned exactly one key in the store is active.
C31_ConcurrentActivatesLeaveOneActive ==
    (\E t \in Threads :
        \E u \in Others(t) :
           /\ threads[t].pc = "idle" /\ threads[t].err = "returned"
           /\ threads[u].pc = "idle" /\ threads[u].err = "returned"
           /\ threads[t].key_id # threads[u].key_id) =>
        Cardinality(ActiveIds(keys)) = 1
\* C32: each key only moves forward along generated-inactive -> active ->
\* inactive -> removed: a key that has been deactivated is never made active
\* again, and a key is removed only after it has been active and then
\* deactivated. (A key has been active exactly when its last_used is set.)
C32_KeyLifecycleOnlyForward ==
    [][\A i \in 1..Len(keys) :
          /\ (~keys[i].is_active /\ keys[i].last_used # NoTime) =>
                \A j \in 1..Len(keys') :
                   keys'[j].key_id = keys[i].key_id => ~keys'[j].is_active
          /\ keys[i].key_id \notin Ids(keys') =>
                ~keys[i].is_active /\ keys[i].last_used # NoTime]_vars
\* C33: once an activate or rotate call has succeeded, every later state
\* reached by completed generate, activate, rotate and cleanup calls (failed
\* ones included) has exactly one active key: a successful activate or rotate
\* leaves exactly one active key, and no call takes a store with exactly one
\* active key to a store without.
C33_OneActiveAfterFirstActivation ==
    [][/\ (last'.op \in {"activate", "rotate"} /\ last'.err = "none" /\ last' # last) =>
             Cardinality(ActiveIds(keys')) = 1
       /\ Cardinality(ActiveIds(keys)) = 1 => Cardinality(ActiveIds(keys')) = 1]_vars

C33_Witness ==
    /\ last.op = "cleanup" /\ last.ret >= 1
    /\ Cardinality(ActiveIds(keys)) = 1
    /\ \E i \in 1..Len(keys) : keys[i].is_active /\ keys[i].last_used # NoTime
\* C34: if the freshly generated secret fails the strength policy, generate
\* and rotate fail with WeakSecret and leave the store unchanged: no entry is
\* inserted, the active key stays active, no rotation_count is incremented
\* and nothing is persisted.
C34_WeakSecretChangesNothing ==
    [][(last'.op \in {"generate", "rotate"} /\ last'.err = "WeakSecret") =>
          /\ keys' = keys
          /\ disk' = disk]_vars

C34_Witness ==
    /\ last.op = "rotate" /\ last.err = "WeakSecret"
    /\ keys # <<>>
    /\ ActiveIds(keys) # {}
    /\ disk.state = "ok"
\* C35: cleanup with dry_run = true returns exactly the list of key ids that
\* the same call with dry_run = false would remove in the same state (the
\* inactive keys created before now - max_age_days, each once), and leaves
\* the in-memory store and the persisted document unchanged.
C35_DryRunListsAndChangesNothing ==
    [][(last'.op = "cleanup_dry" /\ last' # last) =>
          LET old == {keys[i].key_id :
                        i \in {j \in 1..Len(keys) :
                                 /\ ~keys[j].is_active
                                 /\ keys[j].created_at < last'.at - last'.arg}}
          IN /\ keys' = keys
             /\ disk' = disk
             /\ last'.err = "none"
             /\ Range(last'.list) = old
             /\ Len(last'.list) = Cardinality(old)
             /\ old = Ids(keys) \ Ids(RemoveKeys(keys, KeysToRemove(keys, last'.arg)))]_vars

C35_Witness ==
    /\ last.op = "cleanup_dry"
    /\ last.list # <<>>
    /\ Range(last.list) \subseteq Ids(keys)
    /\ ActiveIds(keys) # {}
\* C36: with a writable store path, after every completed generate, activate,
\* rotate or cleanup call, a new manager constructed on the same path loads
\* exactly the in-memory store of the first manager: the same key ids, in the
\* same order, with the same is_active, rotation_count, created_at, algorithm,
\* key_length and last_used.
C36_ReloadGivesTheSameStore ==
    (hasPath /\ ioFailures = 0) =>
        /\ Construct(disk).raised = "none"
        /\ Construct(disk).keys = keys

C36_Witness ==
    /\ hasPath /\ ioFailures = 0
    /\ last.op = "rotate" /\ last.err = "none"
    /\ Len(keys) >= 2
    /\ disk.state = "ok"
    /\ \E i \in 1..Len(keys) :
          ~keys[i].is_active /\ keys[i].rotation_count >= 1 /\ keys[i].last_used # NoTime
\* C37: the iat, nbf, exp and jti of a token returned by create are always
\* the values create computes (now, now, now + ttl, a fresh nonce): keys
\* named iat, nbf, exp or jti in the caller's payload never replace them, so
\* no token has an exp beyond now + ttl.
C37_StandardClaimsNotOverridable ==
    (last.op = "create" /\ last.err = "none") =>
        /\ last.tok.claims.iat = Num(last.at)
        /\ last.tok.claims.nbf = Num(last.at)
        /\ last.tok.claims.exp = Num(last.at + Lifetime(issued.delta))
        /\ last.tok.claims.jti = Str("nonce")
====
